---------------------------- MODULE Spec2Model ----------------------------
(***************************************************************************)
(* A model of salt/_modules/saltcheck.py: the assertion routines, the      *)
(* type coercion, the test validator, run_test, the state test loader and  *)
(* the run_state_tests loop.                                               *)
(*                                                                         *)
(* Python values are records [k, i, s, l, d]: k is the runtime type, i the *)
(* number of an int or bool, s the characters of a str, l the elements of  *)
(* a list, d the (key, value) entries of a dict in insertion order.        *)
(* Texts are sequences of one-character strings, so that split, format,    *)
(* str() and int() are computed and not assumed. Python 3 semantics.       *)
(* A status string is a sequence of text pieces whose concatenation is the *)
(* string: "Fail: x not True" is <<"Fail", ": ", "x", " not True">>.       *)
(***************************************************************************)
EXTENDS Integers, Sequences, FiniteSets, TLC

VARIABLES
    a_expected,     \* assertion routine under test: its expected argument
    a_returned,     \* its returned (actual) argument
    a_print,        \* its assert_print_result argument
    a_op,           \* the routine that ran ("" before any ran)
    a_out,          \* the status it produced: [exc, val]
    c_out,          \* what _cast_expected_to_returned_type produced: [exc, val]
    test_dict,      \* the definition handed to run_test (a Python dict: key -> value)
    modules,        \* the module names sys.list_modules gives
    functions,      \* the "module.function" names sys.list_functions gives
    lookup_fails,   \* whether sys.list_functions raises a SaltException
    mod_cache,      \* memoize cache of _is_valid_module: key -> answer
    fun_cache,      \* memoize cache of _is_valid_function: key -> answer
    r_valid,        \* what __is_valid_test did in the last run_test:
                    \* "" (not run), "valid", "invalid" or "raised"
    result,         \* what run_test gave: [exc, status, duration]
    actual_return,  \* the value run_test handed to the assertion routine
    cmd_calls,      \* the salt_lc.cmd invocations made:
                    \* <<[call, resp]>>, resp what the call gave
    lookups,        \* the sys.list_modules and sys.list_functions calls made:
                    \* <<[listing, args, answer]>>
    verdicts,       \* what __is_valid_test returned, call after call:
                    \* <<[definition, valid]>>
    files,          \* the file system: the paths that are files
    listing,        \* the order in which a directory lists its subdirectories
    search_paths,   \* StateTestLoader.search_paths
    test_files,     \* StateTestLoader.test_files
    l_sls,          \* the last add_test_files_for_sls call: its sls_name,
    l_check_all,    \* its check_all,
    l_before,       \* test_files as the call found it,
    l_probes,       \* the paths it asked os.path.isfile about,
    l_adds,         \* and the number of calls made so far
    rendered,       \* what slsutil.renderer gives for each file: path -> mapping
    stl_test_dict,  \* StateTestLoader.test_dict: <<[key, val]>> in order
    b_pc,           \* where run_state_tests stands: "idle", "add",
                    \* "tests", "done" or "raised"
    b_states,       \* the state names of sls_list the loop has not reached
    b_check_all,    \* its check_all
    b_state_name,   \* the state name the loop is at
    b_todo,         \* the keys of stl.test_dict the inner loop has not reached
    b_results_dict, \* results_dict of the state the loop is at
    b_results,      \* results: <<[key, val]>> in order
    b_files,        \* the test_files the last load_test_suite read
    b_out,          \* what run_state_tests returned
    b_exc           \* the exception that left run_state_tests

avars == <<a_expected, a_returned, a_print, a_op, a_out, c_out>>
rvars == <<test_dict, modules, functions, lookup_fails, mod_cache, fun_cache,
           r_valid, result, actual_return, cmd_calls, lookups, verdicts>>
lvars == <<files, listing, search_paths, test_files, l_sls, l_check_all, l_before,
           l_probes, l_adds>>
bvars == <<rendered, stl_test_dict, b_pc, b_states, b_check_all, b_state_name, b_todo,
           b_results_dict, b_results, b_files, b_out, b_exc>>
vars == <<avars, rvars, lvars, bvars>>

---------------------------------------------------------------------------
(* Python values *)

PInt(n)  == [k |-> "int",  i |-> n, s |-> <<>>, l |-> <<>>, d |-> <<>>]
PBool(b) == [k |-> "bool", i |-> IF b THEN 1 ELSE 0, s |-> <<>>, l |-> <<>>, d |-> <<>>]
PStr(cs) == [k |-> "str",  i |-> 0, s |-> cs, l |-> <<>>, d |-> <<>>]
PList(es) == [k |-> "list", i |-> 0, s |-> <<>>, l |-> es, d |-> <<>>]
PDict(kv) == [k |-> "dict", i |-> 0, s |-> <<>>, l |-> <<>>, d |-> kv]
PNone    == [k |-> "none", i |-> 0, s |-> <<>>, l |-> <<>>, d |-> <<>>]
PTrue    == PBool(TRUE)
PFalse   == PBool(FALSE)

\* a dict entry
KV(key, val) == [key |-> key, val |-> val]

\* the characters that occur in the texts of the model, in code point order
Alphabet ==
    << " ", "'", "+", ",", "-", ".", "0", "1", "2", "3", "4", "5", "6", "7", "8", "9",
       ":", "F", "N", "T", "[", "]", "_", "a", "b", "c", "d", "e", "f", "h", "i", "k",
       "l", "m", "n", "o", "p", "r", "s", "t", "u", "x", "y", "{", "}" >>

Ord(c) == CHOOSE n \in 1..Len(Alphabet) : Alphabet[n] = c

Digits == <<"0", "1", "2", "3", "4", "5", "6", "7", "8", "9">>
IsDigit(c) == \E n \in 1..10 : Digits[n] = c
DigitVal(c) == (CHOOSE n \in 1..10 : Digits[n] = c) - 1

\* the literal texts of the program
TxtFalse == <<"F", "a", "l", "s", "e">>
TxtTrue  == <<"T", "r", "u", "e">>
TxtNone  == <<"N", "o", "n", "e">>

RECURSIVE NatToStr(_)
NatToStr(n) == IF n < 10 THEN <<Digits[n + 1]>>
               ELSE NatToStr(n \div 10) \o <<Digits[(n % 10) + 1]>>

IntToStr(n) == IF n < 0 THEN <<"-">> \o NatToStr(-n) ELSE NatToStr(n)

RECURSIVE Join(_, _)
\* sep.join(parts)
Join(parts, sep) ==
    IF parts = <<>> THEN <<>>
    ELSE IF Len(parts) = 1 THEN parts[1]
    ELSE parts[1] \o sep \o Join(Tail(parts), sep)

\* repr() of a value that is no container
ReprScalar(v) ==
    CASE v.k = "int"  -> IntToStr(v.i)
      [] v.k = "bool" -> IF v.i = 1 THEN TxtTrue ELSE TxtFalse
      [] v.k = "none" -> TxtNone
      [] v.k = "str"  -> <<"'">> \o v.s \o <<"'">>
      [] OTHER        -> <<>>

\* str(v), which is what "{0}".format(v) and six.text_type(v) give
PyStr(v) ==
    CASE v.k = "str"  -> v.s
      [] v.k = "list" ->
            <<"[">> \o Join([n \in 1..Len(v.l) |-> ReprScalar(v.l[n])], <<",", " ">>) \o <<"]">>
      [] v.k = "dict" ->
            <<"{">> \o Join([n \in 1..Len(v.d) |->
                                <<"'">> \o v.d[n].key \o <<"'", ":", " ">> \o ReprScalar(v.d[n].val)],
                            <<",", " ">>) \o <<"}">>
      [] OTHER        -> ReprScalar(v)

\* bool(v)
Truthy(v) ==
    CASE v.k \in {"int", "bool"} -> v.i # 0
      [] v.k = "str"  -> v.s # <<>>
      [] v.k = "list" -> v.l # <<>>
      [] v.k = "dict" -> v.d # <<>>
      [] OTHER        -> FALSE

IsNumber(v) == v.k \in {"int", "bool"}

DictKeys(v) == {v.d[n].key : n \in 1..Len(v.d)}
DictHas(v, key) == key \in DictKeys(v)
DictGet(v, key) == v.d[CHOOSE n \in 1..Len(v.d) : v.d[n].key = key].val

\* a == b on values that are no containers
ScalarEq(a, b) ==
    \/ IsNumber(a) /\ IsNumber(b) /\ a.i = b.i
    \/ a.k = "str" /\ b.k = "str" /\ a.s = b.s
    \/ a.k = "none" /\ b.k = "none"

\* a == b
PyEq(a, b) ==
    \/ ScalarEq(a, b)
    \/ /\ a.k = "list" /\ b.k = "list" /\ Len(a.l) = Len(b.l)
       /\ \A n \in 1..Len(a.l) : ScalarEq(a.l[n], b.l[n])
    \/ /\ a.k = "dict" /\ b.k = "dict" /\ DictKeys(a) = DictKeys(b)
       /\ \A key \in DictKeys(a) : ScalarEq(DictGet(a, key), DictGet(b, key))

\* whether sub occurs in text as a contiguous run
IsSubstring(sub, text) ==
    \E n \in 0..(Len(text) - Len(sub)) : SubSeq(text, n + 1, n + Len(sub)) = sub

\* An evaluation either gives a value or raises: [exc |-> "" or the
\* exception's type, val |-> the value].
Ok(v) == [exc |-> "", val |-> v]
Raise(e, filler) == [exc |-> e, val |-> filler]

\* x in c, as [exc, val]: val is the truth value
PyIn(x, c) ==
    CASE c.k = "str"  -> IF x.k = "str" THEN Ok(IsSubstring(x.s, c.s))
                         ELSE Raise("TypeError", FALSE)
      [] c.k = "list" -> Ok(\E n \in 1..Len(c.l) : PyEq(x, c.l[n]))
      [] c.k = "dict" -> IF x.k \in {"list", "dict"} THEN Raise("TypeError", FALSE)
                         ELSE Ok(x.k = "str" /\ DictHas(c, x.s))
      [] OTHER        -> Raise("TypeError", FALSE)

RECURSIVE TextLess(_, _)
\* lexicographic order of two texts
TextLess(a, b) ==
    IF b = <<>> THEN FALSE
    ELSE IF a = <<>> THEN TRUE
    ELSE IF Head(a) = Head(b) THEN TextLess(Tail(a), Tail(b))
    ELSE Ord(Head(a)) < Ord(Head(b))

\* a < b on values that are no containers, as [exc, val]
ScalarLess(a, b) ==
    IF IsNumber(a) /\ IsNumber(b) THEN Ok(a.i < b.i)
    ELSE IF a.k = "str" /\ b.k = "str" THEN Ok(TextLess(a.s, b.s))
    ELSE Raise("TypeError", FALSE)

RECURSIVE ListLess(_, _)
\* a < b on two lists of scalars: the first elements that differ decide
ListLess(a, b) ==
    IF b = <<>> THEN Ok(FALSE)
    ELSE IF a = <<>> THEN Ok(TRUE)
    ELSE IF ScalarEq(Head(a), Head(b)) THEN ListLess(Tail(a), Tail(b))
    ELSE ScalarLess(Head(a), Head(b))

\* a < b
PyLess(a, b) ==
    IF a.k = "list" /\ b.k = "list" THEN ListLess(a.l, b.l)
    ELSE ScalarLess(a, b)

\* a <= b: Python asks each type for its own <=, which for these types
\* raises exactly when < does
PyLessEq(a, b) ==
    LET lt == PyLess(a, b) IN
    IF lt.exc # "" THEN lt ELSE Ok(lt.val \/ PyEq(a, b))

PyGreater(a, b) == PyLess(b, a)
PyGreaterEq(a, b) == PyLessEq(b, a)

---------------------------------------------------------------------------
(* Constructors: what type(returned)(expected) does *)

IsSpace(c) == c = " "

RECURSIVE LStrip(_)
LStrip(t) == IF t # <<>> /\ IsSpace(Head(t)) THEN LStrip(Tail(t)) ELSE t

RECURSIVE RStrip(_)
RStrip(t) == IF t # <<>> /\ IsSpace(t[Len(t)]) THEN RStrip(SubSeq(t, 1, Len(t) - 1)) ELSE t

RECURSIVE DigitsToNat(_)
DigitsToNat(t) == IF t = <<>> THEN 0
                  ELSE DigitsToNat(SubSeq(t, 1, Len(t) - 1)) * 10 + DigitVal(t[Len(t)])

\* int(text): surrounding blanks dropped, an optional sign, then digits only
IntFromText(text) ==
    LET t == RStrip(LStrip(text))
        signed == t # <<>> /\ Head(t) \in {"+", "-"}
        ds == IF signed THEN Tail(t) ELSE t
    IN  IF ds # <<>> /\ \A n \in 1..Len(ds) : IsDigit(ds[n])
        THEN Ok(PInt(IF signed /\ Head(t) = "-" THEN -DigitsToNat(ds) ELSE DigitsToNat(ds)))
        ELSE Raise("ValueError", PNone)

\* int(x)
PyIntOf(x) ==
    CASE IsNumber(x)  -> Ok(PInt(x.i))
      [] x.k = "str"  -> IntFromText(x.s)
      [] OTHER        -> Raise("TypeError", PNone)

\* bool(x)
PyBoolOf(x) == Ok(PBool(Truthy(x)))

\* str(x)
PyStrOf(x) == Ok(PStr(PyStr(x)))

\* list(x): the characters of a text, the keys of a dict
PyListOf(x) ==
    CASE x.k = "str"  -> Ok(PList([n \in 1..Len(x.s) |-> PStr(<<x.s[n]>>)]))
      [] x.k = "list" -> Ok(x)
      [] x.k = "dict" -> Ok(PList([n \in 1..Len(x.d) |-> PStr(x.d[n].key)]))
      [] OTHER        -> Raise("TypeError", PNone)

RECURSIVE DictUpdate(_, _)
\* the entries kv with the entries more stored on top, a later key replacing
\* the value of an equal earlier key in place
DictUpdate(kv, more) ==
    IF more = <<>> THEN kv
    ELSE LET e == Head(more)
             at == {n \in 1..Len(kv) : kv[n].key = e.key}
         IN  DictUpdate(IF at = {} THEN Append(kv, e)
                        ELSE [n \in 1..Len(kv) |-> IF n \in at THEN e ELSE kv[n]],
                        Tail(more))

\* dict(x): every element of an iterable must be a sequence of length 2
PyDictOf(x) ==
    CASE x.k = "dict" -> Ok(x)
      [] x.k = "str"  -> IF x.s = <<>> THEN Ok(PDict(<<>>)) ELSE Raise("ValueError", PNone)
      [] x.k = "list" ->
            LET bad == {n \in 1..Len(x.l) : x.l[n].k # "str" \/ Len(x.l[n].s) # 2}
                first == CHOOSE n \in bad : \A m \in bad : n <= m
            IN  IF bad = {}
                THEN Ok(PDict(DictUpdate(<<>>, [n \in 1..Len(x.l) |->
                                KV(<<x.l[n].s[1]>>, PStr(<<x.l[n].s[2]>>))])))
                ELSE IF x.l[first].k # "str" THEN Raise("TypeError", PNone)
                ELSE Raise("ValueError", PNone)
      [] OTHER        -> Raise("TypeError", PNone)

\* ret_type(expected) for the type named kind; NoneType takes no arguments
Construct(kind, x) ==
    CASE kind = "int"  -> PyIntOf(x)
      [] kind = "bool" -> PyBoolOf(x)
      [] kind = "str"  -> PyStrOf(x)
      [] kind = "list" -> PyListOf(x)
      [] kind = "dict" -> PyDictOf(x)
      [] OTHER         -> Raise("TypeError", PNone)

\* the exceptions the try block catches
CastCaught == {"ValueError"}

\* SaltCheck._cast_expected_to_returned_type, as [exc, val]
cast_expected_to_returned_type(expected, returned) ==
    LET new_expected == expected
        expected2 == IF PyEq(expected, PStr(TxtFalse)) /\ returned.k = "bool"
                     THEN PFalse ELSE expected
        made == Construct(returned.k, expected2)
    IN  IF made.exc = "" THEN Ok(made.val)
        ELSE IF made.exc \in CastCaught THEN Ok(new_expected)
        ELSE Raise(made.exc, PNone)

---------------------------------------------------------------------------
(* The assertion routines. Each gives [exc, val]: val is the status. *)

StatusPass == <<"Pass">>
StatusFail(msg) == <<"Fail", ": ">> \o msg

\* try: assert cond, msg / except AssertionError: only the assertion's own
\* failure is caught; an exception of the condition leaves the routine
Asserted(cond, msg) ==
    IF cond.exc # "" THEN Raise(cond.exc, <<>>)
    ELSE IF cond.val THEN Ok(StatusPass)
    ELSE Ok(StatusFail(msg))

assert_equal(expected, returned, assert_print_result) ==
    Asserted(Ok(PyEq(expected, returned)),
             IF Truthy(assert_print_result)
             THEN PyStr(expected) \o <<" is not equal to ">> \o PyStr(returned)
             ELSE <<"Result is not equal">>)

assert_not_equal(expected, returned, assert_print_result) ==
    Asserted(Ok(~PyEq(expected, returned)),
             IF Truthy(assert_print_result)
             THEN PyStr(expected) \o <<" is equal to ">> \o PyStr(returned)
             ELSE <<"Result is equal">>)

assert_true(returned) ==
    Asserted(Ok(returned = PTrue), PyStr(returned) \o <<" not True">>)

\* bool() of a text: a text is true unless it is empty
BoolOfText(text) == PBool(text # <<>>)

assert_false(returned) ==
    LET r == IF returned.k = "str" THEN BoolOfText(returned.s) ELSE returned
    IN  Asserted(Ok(r = PFalse), PyStr(r) \o <<" not False">>)

assert_in(expected, returned, assert_print_result) ==
    Asserted(PyIn(expected, returned),
             IF Truthy(assert_print_result)
             THEN PyStr(expected) \o <<" not found in ">> \o PyStr(returned)
             ELSE <<"Result not found">>)

assert_not_in(expected, returned, assert_print_result) ==
    LET isin == PyIn(expected, returned) IN
    Asserted([isin EXCEPT !.val = ~isin.val],
             IF Truthy(assert_print_result)
             THEN PyStr(expected) \o <<" was found in ">> \o PyStr(returned)
             ELSE <<"Result was found">>)

assert_greater(expected, returned) ==
    Asserted(PyGreater(expected, returned), PyStr(returned) \o <<" not False">>)

assert_greater_equal(expected, returned) ==
    Asserted(PyGreaterEq(expected, returned), PyStr(returned) \o <<" not False">>)

assert_less(expected, returned) ==
    Asserted(PyLess(expected, returned), PyStr(returned) \o <<" not False">>)

assert_less_equal(expected, returned) ==
    Asserted(PyLessEq(expected, returned), PyStr(returned) \o <<" not False">>)

assert_empty(returned) ==
    Asserted(Ok(~Truthy(returned)), PyStr(returned) \o <<" is not empty">>)

assert_not_empty(returned) ==
    Asserted(Ok(Truthy(returned)), <<"value is empty">>)

---------------------------------------------------------------------------
(* The test validator *)

\* the texts of the assertion names and of the special operation name
TxtAssertEqual == <<"a", "s", "s", "e", "r", "t", "E", "q", "u", "a", "l">>
TxtAssertNotEqual == <<"a", "s", "s", "e", "r", "t", "N", "o", "t", "E", "q", "u", "a", "l">>
TxtAssertTrue == <<"a", "s", "s", "e", "r", "t", "T", "r", "u", "e">>
TxtAssertFalse == <<"a", "s", "s", "e", "r", "t", "F", "a", "l", "s", "e">>
TxtAssertIn == <<"a", "s", "s", "e", "r", "t", "I", "n">>
TxtAssertNotIn == <<"a", "s", "s", "e", "r", "t", "N", "o", "t", "I", "n">>
TxtAssertGreater == <<"a", "s", "s", "e", "r", "t", "G", "r", "e", "a", "t", "e", "r">>
TxtAssertGreaterEqual == <<"a", "s", "s", "e", "r", "t", "G", "r", "e", "a", "t", "e", "r", "E", "q", "u", "a", "l">>
TxtAssertLess == <<"a", "s", "s", "e", "r", "t", "L", "e", "s", "s">>
TxtAssertLessEqual == <<"a", "s", "s", "e", "r", "t", "L", "e", "s", "s", "E", "q", "u", "a", "l">>
TxtAssertEmpty == <<"a", "s", "s", "e", "r", "t", "E", "m", "p", "t", "y">>
TxtAssertNotEmpty == <<"a", "s", "s", "e", "r", "t", "N", "o", "t", "E", "m", "p", "t", "y">>
TxtStateApply ==
    <<"s", "a", "l", "t", "c", "h", "e", "c", "k", ".", "s", "t", "a", "t", "e", "_", "a", "p", "p", "l", "y">>

\* self.assertions_list
assertions_list ==
    << TxtAssertEqual, TxtAssertNotEqual, TxtAssertTrue, TxtAssertFalse, TxtAssertIn,
       TxtAssertNotIn, TxtAssertGreater, TxtAssertGreaterEqual, TxtAssertLess,
       TxtAssertLessEqual, TxtAssertEmpty, TxtAssertNotEmpty >>

\* value in [texts]: a list membership test, by ==
InTexts(v, texts) == \E n \in 1..Len(texts) : PyEq(v, PStr(texts[n]))

\* test_dict.get(key, default)
Get(td, key, default) == IF key \in DOMAIN td THEN td[key] ELSE default

RECURSIVE Split(_, _)
\* text.split(c) for a one-character separator c
Split(text, c) ==
    LET at == {n \in 1..Len(text) : text[n] = c} IN
    IF at = {} THEN <<text>>
    ELSE LET n == CHOOSE m \in at : \A o \in at : m <= o
         IN  <<SubSeq(text, 1, n - 1)>> \o Split(SubSeq(text, n + 1, Len(text)), c)

\* a memoize that forgets: the cache is left as it is
MemoForget(cache, key, computed) == cache

\* the memoize decorator: the cache answers for a key it holds
Memo(cache, key, computed) == IF key \in DOMAIN cache THEN cache[key] ELSE computed
MemoStore(cache, key, computed) ==
    IF key \in DOMAIN cache THEN cache ELSE cache @@ (key :> computed)

\* the calls of the function memoize wraps: one if the cache lacks the key
MemoCalls(cache, key, asked, args, computed) ==
    IF key \in DOMAIN cache THEN <<>>
    ELSE <<[listing |-> asked, args |-> args, answer |-> computed]>>

\* the body of _is_valid_module
ModuleListed(module, mods) == module \in mods

\* a lookup that asks only whether the module has any function
FunctionListedAnyOfModule(module_name, function, funs, fails) ==
    /\ ~fails
    /\ \E f \in funs : /\ Len(f) > Len(module_name)
                       /\ SubSeq(f, 1, Len(module_name) + 1) = module_name \o <<".">>

\* the body of _is_valid_function; a failed lookup leaves one name that is
\* no function's name
FunctionListed(module_name, function, funs, fails) ==
    LET listed == IF fails THEN {<<"unable to look up functions">>} ELSE funs
    IN  (module_name \o <<".">> \o function) \in listed

\* a required total that asks one point less of a standard test
RequiredTotalLow(skip, m_and_f, assertion) ==
    IF Truthy(skip) THEN 0
    ELSE IF InTexts(m_and_f, <<TxtStateApply>>) THEN 2
    ELSE IF InTexts(assertion, <<TxtAssertEmpty, TxtAssertNotEmpty, TxtAssertTrue, TxtAssertFalse>>)
    THEN 4
    ELSE 5

\* the required total of __is_valid_test
RequiredTotal(skip, m_and_f, assertion) ==
    IF Truthy(skip) THEN 0
    ELSE IF InTexts(m_and_f, <<TxtStateApply>>) THEN 2
    ELSE IF InTexts(assertion, <<TxtAssertEmpty, TxtAssertNotEmpty, TxtAssertTrue, TxtAssertFalse>>)
    THEN 4
    ELSE 6

\* SaltCheck.__is_valid_test: [exc, val, mod_cache, fun_cache, lookups]
is_valid_test(td, mc, fc, mods, funs, fails) ==
    LET skip == Get(td, "skip", PFalse)
        m_and_f == Get(td, "module_and_function", PNone)
        assertion == Get(td, "assertion", PNone)
        exp_ret_key == "expected-return" \in DOMAIN td
        exp_ret_val == Get(td, "expected-return", PNone)
        required_total == RequiredTotal(skip, m_and_f, assertion)
        parts == Split(m_and_f.s, ".")
        module == parts[1]
        function == parts[2]
        fkey == module \o <<",">> \o function
        valid_module == Memo(mc, module, ModuleListed(module, mods))
        valid_function == Memo(fc, fkey, FunctionListed(module, function, funs, fails))
        m_tots == 1 + (IF valid_module THEN 1 ELSE 0) + (IF valid_function THEN 1 ELSE 0)
        tots == (IF Truthy(m_and_f) THEN m_tots ELSE 0)
                + (IF InTexts(assertion, assertions_list) THEN 1 ELSE 0)
                + (IF exp_ret_key THEN 1 ELSE 0)
                + (IF exp_ret_val.k # "none" THEN 1 ELSE 0)
    IN  IF Truthy(m_and_f) /\ m_and_f.k # "str"
        THEN [exc |-> "AttributeError", val |-> FALSE, mod_cache |-> mc, fun_cache |-> fc,
              lookups |-> <<>>]
        ELSE IF Truthy(m_and_f) /\ Len(parts) # 2
        THEN [exc |-> "ValueError", val |-> FALSE, mod_cache |-> mc, fun_cache |-> fc,
              lookups |-> <<>>]
        ELSE [exc |-> "", val |-> tots >= required_total,
              lookups |-> IF Truthy(m_and_f)
                          THEN MemoCalls(mc, module, "sys.list_modules", <<module>>,
                                         ModuleListed(module, mods))
                               \o MemoCalls(fc, fkey, "sys.list_functions", <<module, function>>,
                                            FunctionListed(module, function, funs, fails))
                          ELSE <<>>,
              mod_cache |-> IF Truthy(m_and_f)
                            THEN MemoStore(mc, module, ModuleListed(module, mods)) ELSE mc,
              fun_cache |-> IF Truthy(m_and_f)
                            THEN MemoStore(fc, fkey,
                                           FunctionListed(module, function, funs, fails))
                            ELSE fc]

---------------------------------------------------------------------------
(* run_test *)

StatusSkip == <<"Skip">>
StatusInvalid == <<"Fail", " - invalid test">>
StatusBadAssertion == <<"Fail", " - bad assertion">>

\* d[key] = val on the entries of a dict
DictSet(kv, key, val) == DictUpdate(kv, <<KV(key, val)>>)

\* d.pop(key) on the entries of a dict that holds key
DictPop(kv, key) ==
    LET n == CHOOSE m \in 1..Len(kv) : kv[m].key = key
    IN  SubSeq(kv, 1, n - 1) \o SubSeq(kv, n + 1, Len(kv))

\* a merge that leaves a key the kwargs already carries
MergeDataKeeping(kwargs, key, data) ==
    IF Truthy(data) THEN PDict(DictSet(kwargs.d, key, data)) ELSE kwargs

\* what run_test does to kwargs for one of pillar-data and grain-data
MergeData(kwargs, key, data) ==
    IF Truthy(data) THEN PDict(DictSet(kwargs.d, key, data))
    ELSE IF DictHas(kwargs, key) THEN PDict(DictPop(kwargs.d, key))
    ELSE kwargs

\* the dict run_test passes on as kwargs
KwargsOf(td) ==
    LET given == Get(td, "kwargs", PDict(<<>>))
        kwargs == IF Truthy(given) THEN given ELSE PDict(<<>>)
        with_pillar == MergeData(kwargs, <<"p", "i", "l", "l", "a", "r">>,
                                 Get(td, "pillar-data", PDict(<<>>)))
    IN  MergeData(with_pillar, <<"g", "r", "a", "i", "n">>, Get(td, "grain-data", PDict(<<>>)))

\* the definition after run_test: update and pop act on the dict the
\* definition holds, when it holds a non-empty one
TestDictAfter(td) ==
    IF "kwargs" \in DOMAIN td /\ Truthy(td["kwargs"])
    THEN [td EXCEPT !["kwargs"] = KwargsOf(td)]
    ELSE td

\* the invocation _call_salt_command makes: salt_lc.cmd(fun, *args, **kwargs)
CmdCall(fun, args, kwargs) ==
    [fun |-> fun,
     args |-> IF Truthy(args) THEN args ELSE PList(<<>>),
     kwargs |-> IF Truthy(kwargs) THEN kwargs ELSE PDict(<<>>)]

\* a drill that gives the "False" text for every value that holds no entry
DrilledSentinel(value, assertion_section) ==
    IF Truthy(assertion_section)
    THEN PStr(PyStr(IF value.k = "dict" /\ assertion_section.k = "str"
                       /\ DictHas(value, assertion_section.s)
                    THEN DictGet(value, assertion_section.s)
                    ELSE PFalse))
    ELSE value

\* what _call_salt_command returns for the value the invocation gave
Drilled(value, assertion_section) ==
    IF value.k = "dict" /\ Truthy(assertion_section)
    THEN PStr(PyStr(IF assertion_section.k = "str" /\ DictHas(value, assertion_section.s)
                    THEN DictGet(value, assertion_section.s)
                    ELSE PFalse))
    ELSE value

\* SaltCheck._call_salt_command: resp is what salt_lc.cmd does, [exc, val]
call_salt_command(resp, assertion_section) ==
    IF resp.exc # "" THEN Raise(resp.exc, PNone)
    ELSE IF resp.val.k = "dict" /\ Truthy(assertion_section)
            /\ assertion_section.k \in {"list", "dict"}
    THEN Raise("TypeError", PNone)
    ELSE Ok(Drilled(resp.val, assertion_section))

\* the assertions run_test does not cast the expected value for
NoCastAssertions ==
    << TxtAssertIn, TxtAssertNotIn, TxtAssertEmpty, TxtAssertNotEmpty,
       TxtAssertTrue, TxtAssertFalse >>

\* an effective assertion that lets a declared assertion stand
EffectiveAssertionDeclared(mod_and_func, td) ==
    IF InTexts(mod_and_func, <<TxtStateApply>>)
    THEN Get(td, "assertion", PStr(TxtAssertNotEmpty))
    ELSE td["assertion"]

\* the effective assertion of run_test
EffectiveAssertion(mod_and_func, td) ==
    IF InTexts(mod_and_func, <<TxtStateApply>>) THEN PStr(TxtAssertNotEmpty)
    ELSE td["assertion"]

\* the dispatch of run_test on the assertion name: [exc, val]
Dispatch(assertion, expected, actual, pr) ==
    CASE PyEq(assertion, PStr(TxtAssertEqual))        -> assert_equal(expected, actual, pr)
      [] PyEq(assertion, PStr(TxtAssertNotEqual))     -> assert_not_equal(expected, actual, pr)
      [] PyEq(assertion, PStr(TxtAssertTrue))         -> assert_true(actual)
      [] PyEq(assertion, PStr(TxtAssertFalse))        -> assert_false(actual)
      [] PyEq(assertion, PStr(TxtAssertIn))           -> assert_in(expected, actual, pr)
      [] PyEq(assertion, PStr(TxtAssertNotIn))        -> assert_not_in(expected, actual, pr)
      [] PyEq(assertion, PStr(TxtAssertGreater))      -> assert_greater(expected, actual)
      [] PyEq(assertion, PStr(TxtAssertGreaterEqual)) -> assert_greater_equal(expected, actual)
      [] PyEq(assertion, PStr(TxtAssertLess))         -> assert_less(expected, actual)
      [] PyEq(assertion, PStr(TxtAssertLessEqual))    -> assert_less_equal(expected, actual)
      [] PyEq(assertion, PStr(TxtAssertEmpty))        -> assert_empty(actual)
      [] PyEq(assertion, PStr(TxtAssertNotEmpty))     -> assert_not_empty(actual)
      [] OTHER                                        -> Ok(StatusBadAssertion)

\* a run_test that raised, and one that returned
Raised(e) == [exc |-> e, status |-> <<>>, duration |-> 0]
Returned(status, duration) == [exc |-> "", status |-> status, duration |-> duration]

\* the part of run_test after the validator accepted a definition that is
\* not skipped: [result, actual, called, merged]; called tells whether the
\* invocation was made, merged whether kwargs was merged before the end
Execute(td, resp, elapsed) ==
    LET mod_and_func == td["module_and_function"]
        assertion_section == Get(td, "assertion_section", PNone)
        assertion == EffectiveAssertion(mod_and_func, td)
        expected_return == Get(td, "expected-return", PNone)
        assert_print_result == Get(td, "print_result", PTrue)
        actual == call_salt_command(resp, assertion_section)
        cast == IF InTexts(assertion, NoCastAssertions) THEN Ok(expected_return)
                ELSE cast_expected_to_returned_type(expected_return, actual.val)
        value == Dispatch(assertion, cast.val, actual.val, assert_print_result)
    IN  IF "module_and_function" \notin DOMAIN td
        THEN [result |-> Raised("KeyError"), actual |-> PNone, called |-> FALSE,
              merged |-> FALSE]
        ELSE IF ~InTexts(mod_and_func, <<TxtStateApply>>) /\ "assertion" \notin DOMAIN td
        THEN [result |-> Raised("KeyError"), actual |-> PNone, called |-> FALSE,
              merged |-> TRUE]
        ELSE IF actual.exc # ""
        THEN [result |-> Raised(actual.exc), actual |-> PNone, called |-> TRUE,
              merged |-> TRUE]
        ELSE IF cast.exc # ""
        THEN [result |-> Raised(cast.exc), actual |-> actual.val, called |-> TRUE,
              merged |-> TRUE]
        ELSE IF value.exc # ""
        THEN [result |-> Raised(value.exc), actual |-> actual.val, called |-> TRUE,
              merged |-> TRUE]
        ELSE [result |-> Returned(value.val, elapsed), actual |-> actual.val,
              called |-> TRUE, merged |-> TRUE]

\* a run_test that looks at skip only after the invocation
RunTestInvokingSkipped(td, mc, fc, mods, funs, fails, resp, elapsed) ==
    LET valid == is_valid_test(td, mc, fc, mods, funs, fails)
        ran == Execute(td, resp, elapsed)
        base == [valid |-> IF valid.exc # "" THEN "raised"
                           ELSE IF valid.val THEN "valid" ELSE "invalid",
                 result |-> Raised(valid.exc), actual |-> PNone, called |-> FALSE,
                 test_dict |-> td, mod_cache |-> valid.mod_cache,
                 fun_cache |-> valid.fun_cache, lookups |-> valid.lookups]
    IN  IF valid.exc # "" THEN base
        ELSE IF ~valid.val
        THEN [base EXCEPT !.result = Returned(StatusInvalid, elapsed)]
        ELSE [base EXCEPT !.result = IF Truthy(Get(td, "skip", PFalse))
                                     THEN Returned(StatusSkip, 0) ELSE ran.result,
                          !.actual = ran.actual, !.called = ran.called,
                          !.test_dict = IF ran.merged THEN TestDictAfter(td) ELSE td]

\* SaltCheck.run_test: [valid, result, actual, called, test_dict, mod_cache,
\* fun_cache, lookups].
\* resp is what the invocation does if it is made, elapsed the time the
\* clock measures, fails whether sys.list_functions raises.
run_test(td, mc, fc, mods, funs, fails, resp, elapsed) ==
    LET valid == is_valid_test(td, mc, fc, mods, funs, fails)
        ran == Execute(td, resp, elapsed)
        base == [valid |-> IF valid.exc # "" THEN "raised"
                           ELSE IF valid.val THEN "valid" ELSE "invalid",
                 result |-> Raised(valid.exc), actual |-> PNone, called |-> FALSE,
                 test_dict |-> td, mod_cache |-> valid.mod_cache,
                 fun_cache |-> valid.fun_cache, lookups |-> valid.lookups]
    IN  IF valid.exc # "" THEN base
        ELSE IF ~valid.val
        THEN [base EXCEPT !.result = Returned(StatusInvalid, elapsed)]
        ELSE IF Truthy(Get(td, "skip", PFalse))
        THEN [base EXCEPT !.result = Returned(StatusSkip, 0)]
        ELSE [base EXCEPT !.result = ran.result, !.actual = ran.actual,
                          !.called = ran.called,
                          !.test_dict = IF ran.merged THEN TestDictAfter(td) ELSE td]

---------------------------------------------------------------------------
(* The state test loader: paths are texts, os.sep is "/" *)

Sep == "/"
TxtSaltcheckTests == <<"s", "a", "l", "t", "c", "h", "e", "c", "k", "-", "t", "e", "s", "t", "s">>
TxtInitTst == <<"i", "n", "i", "t", ".", "t", "s", "t">>
TxtDotTst == <<".", "t", "s", "t">>

RECURSIVE Collapse(_)
\* a text with every run of separators made one and no separator at its end
Collapse(p) ==
    IF Len(p) <= 1 THEN p
    ELSE IF p[Len(p)] = Sep THEN Collapse(SubSeq(p, 1, Len(p) - 1))
    ELSE IF p[Len(p) - 1] = Sep
    THEN (IF Collapse(SubSeq(p, 1, Len(p) - 1)) = <<Sep>> THEN <<>>
          ELSE Collapse(SubSeq(p, 1, Len(p) - 1))) \o <<Sep, p[Len(p)]>>
    ELSE Append(Collapse(SubSeq(p, 1, Len(p) - 1)), p[Len(p)])

\* the path the file system resolves a text to (os.path.abspath on an
\* absolute path without "." and ".."): a text that needs no change is kept
Normalize(p) ==
    IF p # <<>> /\ p[Len(p)] # Sep /\ \A n \in 1..(Len(p) - 1) : p[n] # Sep \/ p[n + 1] # Sep
    THEN p ELSE Collapse(p)

HasPrefix(text, pre) == Len(text) >= Len(pre) /\ SubSeq(text, 1, Len(pre)) = pre

\* whether the file f lies below the directory q, and its path from there
Below(f, q) == HasPrefix(f, Append(q, Sep))
Rest(f, q) == SubSeq(f, Len(q) + 2, Len(f))

\* the normalized paths that are directories: the search roots and every
\* directory that holds a file
IsDirAt(q) ==
    \/ \E n \in 1..Len(search_paths) : search_paths[n] = q
    \/ \E f \in files : Below(f, q)

\* os.path.isfile and os.path.isdir
IsFile(p) == Normalize(p) \in files
IsDir(p) == IsDirAt(Normalize(p))

\* text.rpartition(c): <<head, separator, tail>> around the last c
RPartition(text, c) ==
    LET at == {n \in 1..Len(text) : text[n] = c} IN
    IF at = {} THEN << <<>>, <<>>, text >>
    ELSE LET n == CHOOSE m \in at : \A o \in at : o <= m
         IN  << SubSeq(text, 1, n - 1), <<c>>, SubSeq(text, n + 1, Len(text)) >>

\* StateTestLoader._convert_sls_to_path: sls.replace(".", os.sep)
convert_sls_to_path(sls) == [n \in 1..Len(sls) |-> IF sls[n] = "." THEN Sep ELSE sls[n]]

\* text.endswith(suffix)
EndsWith(text, suffix) ==
    Len(text) >= Len(suffix) /\ SubSeq(text, Len(text) - Len(suffix) + 1, Len(text)) = suffix

RECURSIVE SortTexts(_)
\* sorted(list(names)) for a set of texts
SortTexts(names) ==
    IF names = {} THEN <<>>
    ELSE LET least == CHOOSE n \in names : \A m \in names : ~TextLess(m, n)
         IN  <<least>> \o SortTexts(names \ {least})

\* Seq(Seq(x)) flattened
RECURSIVE Flatten(_)
Flatten(ss) == IF ss = <<>> THEN <<>> ELSE Head(ss) \o Flatten(Tail(ss))

\* the names of the files and of the subdirectories of a directory
FileNamesAt(q) ==
    {Rest(f, q) : f \in {g \in files : Below(g, q) /\ \A n \in 1..Len(Rest(g, q)) : Rest(g, q)[n] # Sep}}
FileNamesIn(dir) == FileNamesAt(Normalize(dir))
SubdirsAt(q) == SelectSeq(listing, LAMBDA name : IsDirAt(Append(q, Sep) \o name))
SubdirsOf(dir) == SubdirsAt(Normalize(dir))

RECURSIVE Walk(_)
\* the loop of _gather_files over os_walk(dirname), top down: the *.tst
\* files of a directory in sorted order, then its subdirectories in turn
Walk(dirname) ==
    IF ~IsDir(dirname) THEN <<>>
    ELSE LET filelist == SortTexts(FileNamesIn(dirname))
             tests == SelectSeq(filelist, LAMBDA fname : EndsWith(fname, TxtDotTst))
             subs == SubdirsOf(dirname)
         IN  [n \in 1..Len(tests) |-> Normalize(dirname \o <<Sep>> \o tests[n])]
             \o Flatten([n \in 1..Len(subs) |-> Walk(dirname \o <<Sep>> \o subs[n])])

RECURSIVE WalkAnyFile(_)
\* a walk that takes every file of a directory, whatever its name ends in
WalkAnyFile(dirname) ==
    IF ~IsDir(dirname) THEN <<>>
    ELSE LET filelist == SortTexts(FileNamesIn(dirname))
             subs == SubdirsOf(dirname)
         IN  [n \in 1..Len(filelist) |-> Normalize(dirname \o <<Sep>> \o filelist[n])]
             \o Flatten([n \in 1..Len(subs) |-> WalkAnyFile(dirname \o <<Sep>> \o subs[n])])

\* a gathering that does not look at the extension
GatherAnyFile(filepath) == WalkAnyFile(filepath \o <<Sep>> \o TxtSaltcheckTests)

\* StateTestLoader._gather_files: the new test_files
gather_files(filepath) == Walk(filepath \o <<Sep>> \o TxtSaltcheckTests)

\* the base path of add_test_files_for_sls for one search path
BasePath(path, sls_split) ==
    IF sls_split[1] # <<>> THEN path \o <<Sep>> \o convert_sls_to_path(sls_split[1])
    ELSE path

InitPath(base_path, sls_split) ==
    base_path \o <<Sep>> \o sls_split[3] \o <<Sep>> \o TxtSaltcheckTests \o <<Sep>> \o TxtInitTst

NamePath(base_path, sls_split) ==
    base_path \o <<Sep>> \o TxtSaltcheckTests \o <<Sep>> \o sls_split[3] \o TxtDotTst

RECURSIVE AddFromStopping(_, _, _, _, _)
\* the loop ended at the first search path that gives a file
AddFromStopping(paths, sls_split, check_all, acc, probes) ==
    IF paths = <<>> THEN [test_files |-> acc, probes |-> probes]
    ELSE LET base_path == BasePath(Head(paths), sls_split)
             init_path == InitPath(base_path, sls_split)
             name_path == NamePath(base_path, sls_split)
             found == (IF IsFile(init_path) THEN <<init_path>> ELSE <<>>)
                      \o (IF IsFile(name_path) THEN <<name_path>> ELSE <<>>)
         IN  IF ~IsDir(base_path)
             THEN AddFromStopping(Tail(paths), sls_split, check_all, acc, probes)
             ELSE IF check_all
             THEN [test_files |-> gather_files(base_path \o <<Sep>> \o sls_split[3]),
                   probes |-> probes]
             ELSE IF found = <<>>
             THEN AddFromStopping(Tail(paths), sls_split, check_all, acc,
                                  probes \cup {init_path, name_path})
             ELSE [test_files |-> acc \o found, probes |-> probes \cup {init_path, name_path}]

RECURSIVE AddFrom(_, _, _, _, _)
\* the loop of add_test_files_for_sls over the search paths left:
\* [test_files, probes]
AddFrom(paths, sls_split, check_all, acc, probes) ==
    IF paths = <<>> THEN [test_files |-> acc, probes |-> probes]
    ELSE LET base_path == BasePath(Head(paths), sls_split)
             init_path == InitPath(base_path, sls_split)
             name_path == NamePath(base_path, sls_split)
             found == (IF IsFile(init_path) THEN <<init_path>> ELSE <<>>)
                      \o (IF IsFile(name_path) THEN <<name_path>> ELSE <<>>)
         IN  IF ~IsDir(base_path) THEN AddFrom(Tail(paths), sls_split, check_all, acc, probes)
             ELSE IF check_all
             THEN [test_files |-> gather_files(base_path \o <<Sep>> \o sls_split[3]),
                   probes |-> probes]
             ELSE AddFrom(Tail(paths), sls_split, check_all, acc \o found,
                          probes \cup {init_path, name_path})

\* StateTestLoader.add_test_files_for_sls: [test_files, probes]
add_test_files_for_sls(sls_name, check_all, before) ==
    AddFrom(search_paths, RPartition(sls_name, "."), check_all, before, {})

---------------------------------------------------------------------------
(* Loading the rendered files, and the report of a batch run *)

\* the keys of an ordered mapping, in order, and the value under a key
Keys(kv) == [n \in 1..Len(kv) |-> kv[n].key]
Lookup(kv, key) == kv[CHOOSE n \in 1..Len(kv) : kv[n].key = key].val

\* the key json.dumps writes for a key of a rendered mapping
JsonKey(key) ==
    CASE key.k = "str"  -> key.s
      [] key.k = "int"  -> IntToStr(key.i)
      [] key.k = "bool" -> IF key.i = 1 THEN <<"t", "r", "u", "e">> ELSE <<"f", "a", "l", "s", "e">>
      [] OTHER          -> <<"n", "u", "l", "l">>

\* loads(dumps(tests), object_pairs_hook=OrderedDict) on a rendered mapping
\* <<[key, val]>> whose values are dicts of texts, numbers, lists and
\* None with text keys, which the round trip gives back as they are
json_round_trip(tests) ==
    DictUpdate(<<>>, [n \in 1..Len(tests) |-> KV(JsonKey(tests[n].key), tests[n].val)])

\* a loading that lets the first definition of a name stand
LoadFileKeepingFirst(td, filepath) ==
    LET mydict == json_round_trip(rendered[Normalize(filepath)])
        fresh == SelectSeq(mydict, LAMBDA e : \A n \in 1..Len(td) : td[n].key # e.key)
    IN  td \o fresh

\* StateTestLoader._load_file_salt_rendered: the new test_dict
load_file_salt_rendered(td, filepath) ==
    DictUpdate(td, json_round_trip(rendered[Normalize(filepath)]))

RECURSIVE LoadFiles(_, _)
LoadFiles(td, paths) ==
    IF paths = <<>> THEN td
    ELSE LoadFiles(load_file_salt_rendered(td, Head(paths)), Tail(paths))

\* a load that merges the files into the test_dict of the last load
LoadOntoLast(paths) == LoadFiles(stl_test_dict, paths)

\* StateTestLoader.load_test_suite: the new test_dict
load_test_suite(paths) == LoadFiles(<<>>, paths)

RECURSIVE SumDurations(_)
SumDurations(rd) == IF rd = <<>> THEN 0 ELSE Head(rd).val.duration + SumDurations(Tail(rd))

RECURSIVE TotalTime(_)
TotalTime(results) ==
    IF results = <<>> THEN 0 ELSE SumDurations(Head(results).val) + TotalTime(Tail(results))

\* the number of results of a state whose status starts with a word
CountIn(rd, word) == Cardinality({m \in 1..Len(rd) : Head(rd[m].val.status) = word})

RECURSIVE CountStatus(_, _)
\* the number of results of all states whose status starts with a word
CountStatus(results, word) ==
    IF results = <<>> THEN 0
    ELSE CountIn(Head(results).val, word) + CountStatus(Tail(results), word)

\* _generate_out_list: the rows, one per state and sorted by state name, and
\* the summary appended to them
generate_out_list(results) ==
    LET names == SortTexts({results[n].key : n \in 1..Len(results)})
    IN  [rows |-> [n \in 1..Len(names) |-> KV(names[n], Lookup(results, names[n]))],
         summary |-> [execution_time |-> TotalTime(results),
                      passed |-> CountStatus(results, "Pass"),
                      failed |-> CountStatus(results, "Fail"),
                      skipped |-> CountStatus(results, "Skip"),
                      missing_tests |-> Cardinality({n \in 1..Len(results) :
                                                        results[n].val = <<>>})]]

---------------------------------------------------------------------------
(* The values and definitions the model runs the program on *)

\* the largest time, in units of 0.0001 s, the clock measures for one run_test
MaxElapsed == 1

TxtX == <<"x">>
TxtK == <<"k">>
Txt5 == <<"5">>

Scalars ==
    { PInt(0), PInt(5), PInt(12), PTrue, PFalse, PNone,
      PStr(<<>>), PStr(Txt5), PStr(TxtFalse), PStr(TxtX), PStr(TxtK) }

Containers ==
    { PList(<<>>), PList(<<PStr(TxtX)>>), PList(<<PInt(5)>>), PList(<<PStr(<<"k", "x">>)>>),
      PDict(<<>>), PDict(<<KV(TxtK, PStr(TxtX))>>), PDict(<<KV(TxtK, PStr(<<>>))>>),
      PDict(<<KV(TxtX, PInt(5))>>) }

\* the values an expected-return or an operation's result takes
Values == Scalars \cup Containers


TxtTest == <<"t", "e", "s", "t">>
TxtSaltcheck == <<"s", "a", "l", "t", "c", "h", "e", "c", "k">>
TxtTestEcho == <<"t", "e", "s", "t", ".", "e", "c", "h", "o">>
TxtTestNofn == <<"t", "e", "s", "t", ".", "n", "o", "f", "n">>
TxtNomodEcho == <<"n", "o", "m", "o", "d", ".", "e", "c", "h", "o">>
TxtNoDot == <<"t", "e", "s", "t">>
TxtTwoDots == <<"a", ".", "b", ".", "c">>
TxtAssertBogus == <<"a", "s", "s", "e", "r", "t", "B", "o", "g", "u", "s">>

\* the collaborator of the model: two modules with one function each
KnownModules == {TxtTest, TxtSaltcheck}
KnownFunctions == {TxtTestEcho, TxtStateApply}

\* a dict that holds key with one of vals, or does not hold key
Opt(key, vals) == {<<>>} \cup {key :> v : v \in vals}

\* the values of module_and_function: none, empty, without a dot, with two
\* dots, a known function, an unknown function, an unknown module, the alias
OperationNames ==
    { PStr(<<>>), PStr(TxtNoDot), PStr(TxtTwoDots), PStr(TxtTestEcho), PStr(TxtTestNofn),
      PStr(TxtNomodEcho), PStr(TxtStateApply) }

\* the values of assertion: the twelve kinds and one that is none of them
AssertionNames ==
    {PStr(assertions_list[n]) : n \in 1..Len(assertions_list)} \cup {PStr(TxtAssertBogus)}

\* the definitions run_test is called on
Definitions ==
    { a @@ b @@ c @@ d @@ e @@ f :
        a \in Opt("skip", {PTrue, PFalse}),
        b \in Opt("module_and_function", OperationNames),
        c \in Opt("assertion", AssertionNames),
        d \in Opt("expected-return", {PNone, PStr(Txt5), PStr(TxtX)}),
        e \in Opt("assertion_section", {PStr(<<>>), PStr(TxtK)}),
        f \in Opt("print_result", {PFalse}) }

\* the values an invoked operation gives
ResultValues ==
    { PInt(0), PInt(5), PTrue, PFalse, PNone, PStr(<<>>), PStr(Txt5), PStr(TxtX),
      PList(<<>>), PList(<<PStr(TxtX)>>),
      PDict(<<>>), PDict(<<KV(TxtK, PStr(TxtX))>>), PDict(<<KV(TxtK, PStr(<<>>))>>) }

\* what salt_lc.cmd may do: give a value, or raise
Responses == {Ok(v) : v \in ResultValues} \cup {Raise("SaltException", PNone)}

\* the answer of an invocation that is never made
NoAnswer == Ok(PNone)

NoResult == [exc |-> "", status |-> <<>>, duration |-> 0]

\* the search roots and the files of the model's file systems
Root1 == <<"/", "r", "1">>
Root2 == <<"/", "r", "2">>
FileR1AInit == <<"/", "r", "1", "/", "a", "/", "s", "a", "l", "t", "c", "h", "e", "c", "k", "-", "t", "e", "s", "t", "s", "/", "i", "n", "i", "t", ".", "t", "s", "t">>
FileR1NamedA == <<"/", "r", "1", "/", "s", "a", "l", "t", "c", "h", "e", "c", "k", "-", "t", "e", "s", "t", "s", "/", "a", ".", "t", "s", "t">>
FileR1ABInit == <<"/", "r", "1", "/", "a", "/", "b", "/", "s", "a", "l", "t", "c", "h", "e", "c", "k", "-", "t", "e", "s", "t", "s", "/", "i", "n", "i", "t", ".", "t", "s", "t">>
FileR1NamedB == <<"/", "r", "1", "/", "a", "/", "s", "a", "l", "t", "c", "h", "e", "c", "k", "-", "t", "e", "s", "t", "s", "/", "b", ".", "t", "s", "t">>
FileR1SubX == <<"/", "r", "1", "/", "a", "/", "s", "a", "l", "t", "c", "h", "e", "c", "k", "-", "t", "e", "s", "t", "s", "/", "s", "u", "b", "/", "x", ".", "t", "s", "t">>
FileR1Notes == <<"/", "r", "1", "/", "a", "/", "s", "a", "l", "t", "c", "h", "e", "c", "k", "-", "t", "e", "s", "t", "s", "/", "n", "o", "t", "e", "s", ".", "t", "x", "t">>
FileR2AInit == <<"/", "r", "2", "/", "a", "/", "s", "a", "l", "t", "c", "h", "e", "c", "k", "-", "t", "e", "s", "t", "s", "/", "i", "n", "i", "t", ".", "t", "s", "t">>
FileR2NamedB == <<"/", "r", "2", "/", "a", "/", "s", "a", "l", "t", "c", "h", "e", "c", "k", "-", "t", "e", "s", "t", "s", "/", "b", ".", "t", "s", "t">>

CandidateFiles ==
    { FileR1AInit, FileR1NamedA, FileR1ABInit, FileR1NamedB, FileR1SubX, FileR1Notes,
      FileR2AInit, FileR2NamedB }

\* the names of the directories, in the order a directory lists them
DirectoryNames == << <<"a">>, <<"b">>, <<"r", "1">>, <<"r", "2">>, TxtSaltcheckTests, <<"s", "u", "b">> >>

SearchPathLists == { <<Root1>>, <<Root1, Root2>>, <<Root2, Root1>> }

\* the sls names add_test_files_for_sls is called with: "a", "a.b" and "c"
SlsA == <<"a">>
SlsAB == <<"a", ".", "b">>
SlsC == <<"c">>
SlsNames == {SlsA, SlsAB, SlsC}

\* the most add_test_files_for_sls calls the loader model makes
MaxAdds == 2

\* the definitions of the rendered files: one that passes or fails, a skipped
\* one, one without an operation, one with an unknown assertion and one
\* whose operation has no dot
TestOk ==
    ("module_and_function" :> PStr(TxtTestEcho)) @@ ("assertion" :> PStr(TxtAssertEqual))
        @@ ("expected-return" :> PStr(TxtX))
TestSkip == ("skip" :> PTrue) @@ TestOk
TestNoOperation == ("assertion" :> PStr(TxtAssertEqual)) @@ ("expected-return" :> PStr(TxtX))
TestBogus == ("assertion" :> PStr(TxtAssertBogus)) @@ TestOk
TestNoDot == ("module_and_function" :> PStr(TxtNoDot)) @@ TestOk

TxtT1 == <<"t", "1">>
TxtT2 == <<"t", "2">>
TxtT3 == <<"t", "3">>
TxtT4 == <<"t", "4">>

\* what slsutil.renderer gives for each file: an ordered mapping
RenderedFiles ==
    (FileR1AInit :> << KV(PStr(TxtT1), TestOk), KV(PStr(TxtT2), TestSkip) >>)
    @@ (FileR1NamedA :> << KV(PStr(TxtT1), TestBogus) >>)
    @@ (FileR1ABInit :> << KV(PStr(TxtT3), TestNoOperation) >>)
    @@ (FileR1NamedB :> << KV(PStr(TxtT4), TestNoDot) >>)
    @@ (FileR1SubX :> << KV(PStr(TxtT2), TestOk), KV(PInt(5), TestOk) >>)
    @@ (FileR1Notes :> <<>>)
    @@ (FileR2AInit :> << KV(PStr(TxtT1), TestNoOperation), KV(PStr(Txt5), TestBogus) >>)
    @@ (FileR2NamedB :> << KV(PStr(TxtT4), TestOk) >>)

\* the file systems of a batch run
BatchFileSystems ==
    { {FileR1AInit},
      {FileR1AInit, FileR1NamedA, FileR1SubX, FileR1Notes},
      {FileR1AInit, FileR1ABInit, FileR2AInit},
      {FileR1ABInit, FileR1NamedB},
      {FileR1AInit, FileR2AInit, FileR2NamedB},
      {FileR1SubX, FileR2AInit} }

\* the lists of states of a batch run
StateLists == { <<SlsA>>, <<SlsC, SlsA>>, <<SlsAB, SlsA>>, <<SlsA, SlsA>>, <<SlsA, SlsC>> }

\* what the invoked operation does in a batch run
BatchResponses == { Ok(PStr(TxtX)), Ok(PInt(0)), Raise("SaltException", PNone) }

\* definitions that run, with and without kwargs, pillar-data and
\* grain-data; the kwargs may carry keys named pillar and grain
TxtPillar == <<"p", "i", "l", "l", "a", "r">>
TxtGrain == <<"g", "r", "a", "i", "n">>
DataK == PDict(<<KV(TxtK, PStr(TxtX))>>)

KwargsDefinitions ==
    { TestOk @@ a @@ b @@ c :
        a \in Opt("kwargs", { DataK,
                              PDict(<<KV(TxtPillar, PStr(Txt5)), KV(TxtK, PStr(TxtX)),
                                      KV(TxtGrain, PStr(Txt5))>>) }),
        b \in Opt("pillar-data", { PDict(<<>>), DataK }),
        c \in Opt("grain-data", { PStr(TxtX) }) }

\* what the invoked operation does in a sequence of runs
KwargsResponses == { Ok(PStr(TxtX)), Raise("SaltException", PNone) }

\* the most run_test calls a sequence of runs makes
MaxRuns == 2

\* definitions whose validation asks for a module and a function; the last
\* two name different pairs that memoize joins to one key, "a,b,c"
TxtCommaModule == <<"a", ",", "b", ".", "c">>
TxtCommaFunction == <<"a", ".", "b", ",", "c">>

MemoDefinitions ==
    { ("module_and_function" :> PStr(name)) @@ TestOk :
        name \in {TxtTestEcho, TxtTestNofn, TxtNomodEcho, TxtCommaModule, TxtCommaFunction} }

\* what the collaborator may list at one time or another
Listings ==
    { [modules |-> KnownModules, functions |-> KnownFunctions, fails |-> FALSE],
      [modules |-> KnownModules, functions |-> KnownFunctions, fails |-> TRUE],
      [modules |-> {}, functions |-> {}, fails |-> FALSE],
      [modules |-> KnownModules \cup {<<"n", "o", "m", "o", "d">>, <<"a">>},
       functions |-> KnownFunctions \cup {TxtTestNofn, TxtNomodEcho, TxtCommaFunction},
       fails |-> FALSE] }

---------------------------------------------------------------------------
(* The assertion routines and the coercion, each on any pair of values *)

RunIdle ==
    /\ test_dict = <<>>
    /\ modules = KnownModules
    /\ functions = KnownFunctions
    /\ lookup_fails = FALSE
    /\ mod_cache = <<>>
    /\ fun_cache = <<>>
    /\ r_valid = ""
    /\ result = NoResult
    /\ actual_return = PNone
    /\ cmd_calls = <<>>
    /\ lookups = <<>>
    /\ verdicts = <<>>

AssertIdle ==
    /\ a_expected = PNone
    /\ a_returned = PNone
    /\ a_print = PTrue
    /\ a_op = ""
    /\ a_out = Ok(<<>>)
    /\ c_out = Ok(PNone)

LoaderIdle ==
    /\ files = {}
    /\ listing = DirectoryNames
    /\ search_paths = <<Root1>>
    /\ test_files = <<>>
    /\ l_sls = <<>>
    /\ l_check_all = FALSE
    /\ l_before = <<>>
    /\ l_probes = {}
    /\ l_adds = 0

BatchIdle ==
    /\ rendered = <<>>
    /\ stl_test_dict = <<>>
    /\ b_pc = "idle"
    /\ b_states = <<>>
    /\ b_check_all = FALSE
    /\ b_state_name = <<>>
    /\ b_todo = <<>>
    /\ b_results_dict = <<>>
    /\ b_results = <<>>
    /\ b_files = <<>>
    /\ b_out = <<>>
    /\ b_exc = ""

InitAssert ==
    /\ LoaderIdle
    /\ BatchIdle
    /\ a_expected \in Values
    /\ a_returned \in Values
    /\ a_print \in {PTrue, PFalse}
    /\ a_op = ""
    /\ a_out = Ok(<<>>)
    /\ c_out = Ok(PNone)
    /\ RunIdle

\* one call of an assertion routine
Routine(name, out) ==
    /\ a_op = ""
    /\ a_op' = name
    /\ a_out' = out
    /\ UNCHANGED <<a_expected, a_returned, a_print, c_out, rvars, lvars, bvars>>

AssertEqual == Routine("assertEqual", assert_equal(a_expected, a_returned, a_print))
AssertNotEqual == Routine("assertNotEqual", assert_not_equal(a_expected, a_returned, a_print))
AssertTrue == Routine("assertTrue", assert_true(a_returned))
AssertFalse == Routine("assertFalse", assert_false(a_returned))
AssertIn == Routine("assertIn", assert_in(a_expected, a_returned, a_print))
AssertNotIn == Routine("assertNotIn", assert_not_in(a_expected, a_returned, a_print))
AssertGreater == Routine("assertGreater", assert_greater(a_expected, a_returned))
AssertGreaterEqual == Routine("assertGreaterEqual", assert_greater_equal(a_expected, a_returned))
AssertLess == Routine("assertLess", assert_less(a_expected, a_returned))
AssertLessEqual == Routine("assertLessEqual", assert_less_equal(a_expected, a_returned))
AssertEmpty == Routine("assertEmpty", assert_empty(a_returned))
AssertNotEmpty == Routine("assertNotEmpty", assert_not_empty(a_returned))

\* one call of _cast_expected_to_returned_type
Cast ==
    /\ a_op = ""
    /\ a_op' = "cast"
    /\ c_out' = cast_expected_to_returned_type(a_expected, a_returned)
    /\ UNCHANGED <<a_expected, a_returned, a_print, a_out, rvars, lvars, bvars>>

NextAssert ==
    \/ AssertEqual \/ AssertNotEqual \/ AssertTrue \/ AssertFalse
    \/ AssertIn \/ AssertNotIn \/ AssertGreater \/ AssertGreaterEqual
    \/ AssertLess \/ AssertLessEqual \/ AssertEmpty \/ AssertNotEmpty
    \/ Cast

SpecAssert == InitAssert /\ [][NextAssert]_vars

---------------------------------------------------------------------------
(* One run_test call on any definition *)

Init ==
    /\ AssertIdle
    /\ LoaderIdle
    /\ BatchIdle
    /\ test_dict \in Definitions
    /\ modules = KnownModules
    /\ functions = KnownFunctions
    /\ lookup_fails \in BOOLEAN
    /\ mod_cache = <<>>
    /\ fun_cache = <<>>
    /\ r_valid = ""
    /\ result = NoResult
    /\ actual_return = PNone
    /\ cmd_calls = <<>>
    /\ lookups = <<>>
    /\ verdicts = <<>>

\* whether run_test on td reaches the invocation
Invokes(td, mc, fc, mods, funs, fails) ==
    LET valid == is_valid_test(td, mc, fc, mods, funs, fails)
    IN  /\ valid.exc = "" /\ valid.val
        /\ ~Truthy(Get(td, "skip", PFalse))
        /\ "module_and_function" \in DOMAIN td

\* run_test(test_dict), the invocation answering resp after elapsed time; a
\* run_test that does not reach the invocation gets no answer
RunTest ==
    /\ r_valid = ""
    /\ \E resp \in IF Invokes(test_dict, mod_cache, fun_cache, modules, functions, lookup_fails)
                   THEN Responses ELSE {NoAnswer},
          elapsed \in 0..MaxElapsed :
         \E r \in {run_test(test_dict, mod_cache, fun_cache, modules, functions,
                           lookup_fails, resp, elapsed)} :
             /\ r_valid' = r.valid
             /\ result' = r.result
             /\ actual_return' = r.actual
             /\ test_dict' = r.test_dict
             /\ mod_cache' = r.mod_cache
             /\ fun_cache' = r.fun_cache
             /\ lookups' = lookups \o r.lookups
             /\ verdicts' = IF r.valid = "raised" THEN verdicts
                             ELSE Append(verdicts, [definition |-> test_dict, valid |-> r.valid = "valid"])
             /\ cmd_calls' = IF r.called
                             THEN Append(cmd_calls,
                                         [call |-> CmdCall(test_dict["module_and_function"],
                                                           Get(test_dict, "args", PNone),
                                                           KwargsOf(test_dict)),
                                          resp |-> resp])
                             ELSE cmd_calls
    /\ UNCHANGED <<avars, lvars, bvars, modules, functions, lookup_fails>>

Next == RunTest

Spec == Init /\ [][Next]_vars

---------------------------------------------------------------------------
(* run_test calls in a row on one SaltCheck object *)

InitKwargs ==
    /\ AssertIdle
    /\ LoaderIdle
    /\ BatchIdle
    /\ RunIdle

\* run_test(td) on a definition as the loader gives it
RunTestNew ==
    /\ Len(cmd_calls) < MaxRuns
    /\ \E td \in KwargsDefinitions, resp \in KwargsResponses, elapsed \in {0, MaxElapsed} :
         \E r \in {run_test(td, mod_cache, fun_cache, modules, functions,
                           lookup_fails, resp, elapsed)} :
             /\ r_valid' = r.valid
             /\ result' = r.result
             /\ actual_return' = r.actual
             /\ test_dict' = r.test_dict
             /\ mod_cache' = r.mod_cache
             /\ fun_cache' = r.fun_cache
             /\ lookups' = lookups \o r.lookups
             /\ verdicts' = IF r.valid = "raised" THEN verdicts
                             ELSE Append(verdicts, [definition |-> td, valid |-> r.valid = "valid"])
             /\ cmd_calls' = IF r.called
                             THEN Append(cmd_calls,
                                         [call |-> CmdCall(td["module_and_function"],
                                                           Get(td, "args", PNone), KwargsOf(td)),
                                          resp |-> resp, definition |-> td, again |-> FALSE])
                             ELSE cmd_calls
    /\ UNCHANGED <<avars, lvars, bvars, modules, functions, lookup_fails>>

\* run_test(test_dict) once more on the definition the last run was given,
\* as that run left it
RunTestAgain ==
    /\ r_valid # ""
    /\ Len(cmd_calls) < MaxRuns
    /\ \E resp \in KwargsResponses, elapsed \in {0, MaxElapsed} :
         \E r \in {run_test(test_dict, mod_cache, fun_cache, modules, functions,
                           lookup_fails, resp, elapsed)} :
             /\ r_valid' = r.valid
             /\ result' = r.result
             /\ actual_return' = r.actual
             /\ test_dict' = r.test_dict
             /\ mod_cache' = r.mod_cache
             /\ fun_cache' = r.fun_cache
             /\ lookups' = lookups \o r.lookups
             /\ verdicts' = IF r.valid = "raised" THEN verdicts
                             ELSE Append(verdicts, [definition |-> test_dict, valid |-> r.valid = "valid"])
             /\ cmd_calls' = IF r.called
                             THEN Append(cmd_calls,
                                         [call |-> CmdCall(test_dict["module_and_function"],
                                                           Get(test_dict, "args", PNone),
                                                           KwargsOf(test_dict)),
                                          resp |-> resp, definition |-> test_dict,
                                          again |-> TRUE])
                             ELSE cmd_calls
    /\ UNCHANGED <<avars, lvars, bvars, modules, functions, lookup_fails>>

NextKwargs == RunTestNew \/ RunTestAgain

SpecKwargs == InitKwargs /\ [][NextKwargs]_vars

---------------------------------------------------------------------------
(* run_test calls in a row while the minion's modules and functions change *)

InitMemo ==
    /\ AssertIdle
    /\ LoaderIdle
    /\ BatchIdle
    /\ RunIdle

\* the modules and functions of the minion change between two runs
ChangeListing ==
    /\ Len(verdicts) < MaxRuns
    /\ \E w \in Listings :
         /\ modules' = w.modules
         /\ functions' = w.functions
         /\ lookup_fails' = w.fails
    /\ UNCHANGED <<avars, lvars, bvars, test_dict, mod_cache, fun_cache, r_valid, result,
                   actual_return, cmd_calls, lookups, verdicts>>

\* run_test(td) on any of the definitions, new or run before
RunTestListed ==
    /\ Len(verdicts) < MaxRuns
    /\ \E td \in MemoDefinitions, resp \in KwargsResponses, elapsed \in {0, MaxElapsed} :
         \E r \in {run_test(td, mod_cache, fun_cache, modules, functions,
                           lookup_fails, resp, elapsed)} :
             /\ r_valid' = r.valid
             /\ result' = r.result
             /\ actual_return' = r.actual
             /\ test_dict' = r.test_dict
             /\ mod_cache' = r.mod_cache
             /\ fun_cache' = r.fun_cache
             /\ lookups' = lookups \o r.lookups
             /\ verdicts' = IF r.valid = "raised" THEN verdicts
                            ELSE Append(verdicts, [definition |-> td, valid |-> r.valid = "valid"])
             /\ cmd_calls' = IF r.called
                             THEN Append(cmd_calls,
                                         [call |-> CmdCall(td["module_and_function"],
                                                           Get(td, "args", PNone), KwargsOf(td)),
                                          resp |-> resp])
                             ELSE cmd_calls
    /\ UNCHANGED <<avars, lvars, bvars, modules, functions, lookup_fails>>

NextMemo == ChangeListing \/ RunTestListed

SpecMemo == InitMemo /\ [][NextMemo]_vars

---------------------------------------------------------------------------
(* The loader on any file system: add_test_files_for_sls calls in a row *)

InitLoader ==
    /\ AssertIdle
    /\ RunIdle
    /\ BatchIdle
    /\ files \in SUBSET CandidateFiles
    /\ listing = DirectoryNames
    /\ search_paths \in SearchPathLists
    /\ test_files = <<>>
    /\ l_sls = <<>>
    /\ l_check_all = FALSE
    /\ l_before = <<>>
    /\ l_probes = {}
    /\ l_adds = 0

\* stl.add_test_files_for_sls(sls_name, check_all)
AddTestFiles ==
    /\ l_adds < MaxAdds
    /\ \E sls_name \in SlsNames, check_all \in BOOLEAN :
         \E r \in {add_test_files_for_sls(sls_name, check_all, test_files)} :
             /\ test_files' = r.test_files
             /\ l_probes' = r.probes
             /\ l_sls' = sls_name
             /\ l_check_all' = check_all
    /\ l_before' = test_files
    /\ l_adds' = l_adds + 1
    /\ UNCHANGED <<avars, rvars, bvars, files, listing, search_paths>>

NextLoader == AddTestFiles

SpecLoader == InitLoader /\ [][NextLoader]_vars

---------------------------------------------------------------------------
(* A batch run: run_state_tests and run_highstate_tests *)

InitBatch ==
    /\ AssertIdle
    /\ RunIdle
    /\ files \in BatchFileSystems
    /\ listing = DirectoryNames
    /\ search_paths \in {<<Root1>>, <<Root1, Root2>>}
    /\ test_files = <<>>
    /\ l_sls = <<>>
    /\ l_check_all = FALSE
    /\ l_before = <<>>
    /\ l_probes = {}
    /\ l_adds = 0
    /\ rendered = RenderedFiles
    /\ stl_test_dict = <<>>
    /\ b_pc = "idle"
    /\ b_states = <<>>
    /\ b_check_all = FALSE
    /\ b_state_name = <<>>
    /\ b_todo = <<>>
    /\ b_results_dict = <<>>
    /\ b_results = <<>>
    /\ b_files = <<>>
    /\ b_out = <<>>
    /\ b_exc = ""

RECURSIVE Distinct(_, _)
\* the states of a list in order, each once
Distinct(sls_list, all_states) ==
    IF sls_list = <<>> THEN all_states
    ELSE Distinct(Tail(sls_list),
                  IF \E n \in 1..Len(all_states) : all_states[n] = Head(sls_list)
                  THEN all_states ELSE Append(all_states, Head(sls_list)))

\* run_state_tests(state, check_all) up to its loop, sls_list the states
\* split_input finds in state
StartStateTests ==
    /\ b_pc = "idle"
    /\ \E sls_list \in StateLists : b_states' = sls_list
    /\ b_check_all' \in BOOLEAN
    /\ b_pc' = "add"
    /\ UNCHANGED <<avars, rvars, lvars, rendered, stl_test_dict, b_state_name, b_todo,
                   b_results_dict, b_results, b_files, b_out, b_exc>>

\* run_highstate_tests(check_all) up to its loop, sls_list the top states
StartHighstateTests ==
    /\ b_pc = "idle"
    /\ \E sls_list \in StateLists : b_states' = Distinct(sls_list, <<>>)
    /\ b_check_all' \in BOOLEAN
    /\ b_pc' = "add"
    /\ UNCHANGED <<avars, rvars, lvars, rendered, stl_test_dict, b_state_name, b_todo,
                   b_results_dict, b_results, b_files, b_out, b_exc>>

\* the head of the loop over the states: add_test_files_for_sls and
\* load_test_suite for the next state
BatchLoad ==
    /\ b_pc = "add"
    /\ b_states # <<>>
    /\ \E r \in {add_test_files_for_sls(Head(b_states), b_check_all, test_files)} :
         \E loaded \in {load_test_suite(r.test_files)} :
             /\ l_probes' = r.probes
             /\ stl_test_dict' = loaded
             /\ b_files' = r.test_files
             /\ b_todo' = Keys(loaded)
    /\ l_sls' = Head(b_states)
    /\ l_check_all' = b_check_all
    /\ l_before' = test_files
    /\ l_adds' = l_adds + 1
    /\ test_files' = <<>>
    /\ b_state_name' = Head(b_states)
    /\ b_states' = Tail(b_states)
    /\ b_results_dict' = <<>>
    /\ b_pc' = "tests"
    /\ UNCHANGED <<avars, rvars, files, listing, search_paths, rendered, b_check_all,
                   b_results, b_out, b_exc>>

\* one turn of the loop over stl.test_dict: result = scheck.run_test(value)
\* and results_dict[key] = result; a raise of run_test leaves the function
BatchRunTest ==
    /\ b_pc = "tests"
    /\ b_todo # <<>>
    /\ LET key == Head(b_todo)
           value == Lookup(stl_test_dict, key)
       IN  \E resp \in IF Invokes(value, mod_cache, fun_cache, modules, functions, lookup_fails)
                       THEN BatchResponses ELSE {NoAnswer},
              elapsed \in 0..MaxElapsed :
             \E r \in {run_test(value, mod_cache, fun_cache, modules, functions,
                               lookup_fails, resp, elapsed)} :
                 /\ r_valid' = r.valid
                 /\ result' = r.result
                 /\ actual_return' = r.actual
                 /\ test_dict' = r.test_dict
                 /\ mod_cache' = r.mod_cache
                 /\ fun_cache' = r.fun_cache
                 /\ lookups' = lookups \o r.lookups
                 /\ verdicts' = IF r.valid = "raised" THEN verdicts
                                 ELSE Append(verdicts, [definition |-> value, valid |-> r.valid = "valid"])
                 /\ cmd_calls' = IF r.called
                                 THEN Append(cmd_calls,
                                             [call |-> CmdCall(value["module_and_function"],
                                                               Get(value, "args", PNone),
                                                               KwargsOf(value)),
                                              resp |-> resp])
                                 ELSE cmd_calls
                 /\ stl_test_dict' = DictSet(stl_test_dict, key, r.test_dict)
                 /\ IF r.result.exc # ""
                    THEN /\ b_pc' = "raised"
                         /\ b_exc' = r.result.exc
                         /\ UNCHANGED <<b_todo, b_results_dict>>
                    ELSE /\ b_results_dict' = DictSet(b_results_dict, key, r.result)
                         /\ b_todo' = Tail(b_todo)
                         /\ UNCHANGED <<b_pc, b_exc>>
    /\ UNCHANGED <<avars, lvars, modules, functions, lookup_fails, rendered, b_states,
                   b_check_all, b_state_name, b_results, b_files, b_out>>

\* the end of a turn of the loop over the states: results[state_name] = results_dict
BatchEndState ==
    /\ b_pc = "tests"
    /\ b_todo = <<>>
    /\ b_results' = DictSet(b_results, b_state_name, b_results_dict)
    /\ b_pc' = "add"
    /\ UNCHANGED <<avars, rvars, lvars, rendered, stl_test_dict, b_states, b_check_all,
                   b_state_name, b_todo, b_results_dict, b_files, b_out, b_exc>>

\* return _generate_out_list(results)
BatchReturn ==
    /\ b_pc = "add"
    /\ b_states = <<>>
    /\ b_out' = generate_out_list(b_results)
    /\ b_pc' = "done"
    /\ UNCHANGED <<avars, rvars, lvars, rendered, stl_test_dict, b_states, b_check_all,
                   b_state_name, b_todo, b_results_dict, b_results, b_files, b_exc>>

NextBatch ==
    \/ StartStateTests
    \/ StartHighstateTests
    \/ BatchLoad
    \/ BatchRunTest
    \/ BatchEndState
    \/ BatchReturn

SpecBatch == InitBatch /\ [][NextBatch]_vars

---------------------------------------------------------------------------
(* Claims about the assertion routines and the coercion (SpecAssert) *)

\* a status that begins with "Pass" or with "Fail"
IsPassOrFail(status) == status # <<>> /\ Head(status) \in {"Pass", "Fail"}

\* C1: every assertion routine, for every expected value, every actual
\* value of any runtime kind and either print option, never raises and
\* returns a status string that begins with "Pass" or "Fail".
C1_AssertionNeverRaises ==
    (a_op # "" /\ a_op # "cast") => (a_out.exc = "" /\ IsPassOrFail(a_out.val))

\* C5: assertFalse given the text "False" returns "Pass"; given any other
\* non-empty text it returns a "Fail: ... not False" status.
C5_AssertFalseOnText ==
    (a_op = "assertFalse" /\ a_returned.k = "str" /\ a_returned.s # <<>>) =>
        /\ a_out.exc = ""
        /\ a_returned.s = TxtFalse => a_out.val = StatusPass
        /\ a_returned.s # TxtFalse =>
              /\ IsPassOrFail(a_out.val) /\ Head(a_out.val) = "Fail"
              /\ a_out.val[Len(a_out.val)] = " not False"

\* C8: the coercion of a textual expected value against an actual value of
\* any kind never raises: it returns a value of the actual's type built
\* from the text (the text "False" against a boolean giving false), or the
\* expected value unchanged when the construction fails.
C8_CastNeverRaises ==
    (a_op = "cast" /\ a_expected.k = "str") =>
        /\ c_out.exc = ""
        /\ c_out.val.k = a_returned.k \/ c_out.val = a_expected
        /\ (a_expected.s = TxtFalse /\ a_returned.k = "bool") => c_out.val = PFalse

---------------------------------------------------------------------------
(* Claims about one run_test call (Spec) *)

Ran == r_valid # ""
Skip == Truthy(Get(test_dict, "skip", PFalse))
Operation == Get(test_dict, "module_and_function", PNone)
Assertion == Get(test_dict, "assertion", PNone)
IsAlias == Operation = PStr(TxtStateApply)
Recognized == \E n \in 1..Len(assertions_list) : Assertion = PStr(assertions_list[n])
Invoked == Len(cmd_calls) = 1
Answered == Invoked /\ cmd_calls[1].resp.exc = ""
Answer == cmd_calls[1].resp.val

\* C2: run_test on a definition whose skip field is true returns exactly
\* {status: "Skip", duration: 0.0}, whatever its other fields are, and
\* does not raise.
C2_SkipAlwaysSkips ==
    (Ran /\ Skip) => result = Returned(StatusSkip, 0)

SixConditions ==
    LET parts == Split(Operation.s, ".") IN
    /\ Truthy(Operation) /\ Operation.k = "str" /\ Len(parts) = 2
    /\ parts[1] \in modules
    /\ ~lookup_fails /\ Operation.s \in functions
    /\ Recognized
    /\ "expected-return" \in DOMAIN test_dict
    /\ test_dict["expected-return"] # PNone

\* the definitions whose required total is 6
Standard ==
    /\ ~Skip /\ ~IsAlias
    /\ Assertion \notin {PStr(TxtAssertEmpty), PStr(TxtAssertNotEmpty),
                         PStr(TxtAssertTrue), PStr(TxtAssertFalse)}

\* C6: for a definition that is not skipped and whose required total is 6,
\* the validator accepts the definition if and only if all six scoring
\* conditions hold; a definition without module_and_function is rejected
\* and run_test returns "Fail - invalid test".
C6_StandardNeedsAllSix ==
    (Ran /\ Standard) =>
        /\ r_valid = "valid" <=> SixConditions
        /\ "module_and_function" \notin DOMAIN test_dict =>
              (r_valid = "invalid" /\ result.exc = "" /\ result.status = StatusInvalid)

C6_Witness ==
    /\ Ran /\ Standard
    /\ "module_and_function" \notin DOMAIN test_dict
    /\ Assertion = PStr(TxtAssertEqual)
    /\ Get(test_dict, "expected-return", PNone) = PStr(Txt5)
    /\ result.status = StatusInvalid

Section == Get(test_dict, "assertion_section", PNone)

\* the text of the entry of a mapping under the section key, "False" when
\* the mapping has no such entry
EntryText(value) ==
    IF DictHas(value, Section.s) THEN PStr(PyStr(DictGet(value, Section.s)))
    ELSE PStr(TxtFalse)

\* C7 as stated: when a definition sets assertion_section, the value
\* handed to the assertion is the text of the entry under that key when the
\* result is a mapping that holds the key, and the text "False" when the
\* result is no mapping or is a mapping without the key.
C7_SectionOrSentinel ==
    (Answered /\ "assertion_section" \in DOMAIN test_dict) =>
        actual_return = IF Answer.k = "dict" THEN EntryText(Answer) ELSE PStr(TxtFalse)

\* C7 as amended: when a definition sets a non-empty assertion_section, the
\* value handed to the assertion is the text of the entry under that key
\* when the result is a mapping that holds the key, the text "False" when
\* the result is a mapping without the key, and the result itself,
\* unchanged, when the result is no mapping.
C7_SectionDrillsMappingsOnly ==
    (Answered /\ "assertion_section" \in DOMAIN test_dict /\ Section.s # <<>>) =>
        actual_return = IF Answer.k = "dict" THEN EntryText(Answer) ELSE Answer

C7_Witness ==
    /\ Answered
    /\ Section = PStr(TxtK)
    /\ Answer = PInt(5)
    /\ actual_return = PInt(5)

\* C9 as stated: for every eligible definition that is not skipped and
\* whose operation is saltcheck.state_apply, whatever assertion it
\* declares, the status is "Pass" if the operation's result is truthy and
\* "Fail: value is empty" otherwise.
C9_AliasJudgesResult ==
    (Ran /\ ~Skip /\ IsAlias /\ r_valid = "valid" /\ result.exc = "") =>
        result.status = IF Truthy(Answer) THEN StatusPass
                        ELSE StatusFail(<<"value is empty">>)

\* C9 as amended: for every eligible definition that is not skipped and
\* whose operation is saltcheck.state_apply, whatever assertion and
\* expected-return it declares, the status is "Pass" if the value handed to
\* the assertion (the operation's result, or the text assertion_section
\* drilled out of it) is truthy and "Fail: value is empty" otherwise.
C9_AliasJudgesActual ==
    (Ran /\ ~Skip /\ IsAlias /\ r_valid = "valid" /\ result.exc = "") =>
        /\ Answered
        /\ result.status = IF Truthy(actual_return) THEN StatusPass
                           ELSE StatusFail(<<"value is empty">>)

C9_Witness ==
    /\ Ran /\ ~Skip /\ IsAlias /\ r_valid = "valid"
    /\ Assertion = PStr(TxtAssertEmpty)
    /\ "assertion_section" \notin DOMAIN test_dict
    /\ Answered /\ Answer = PStr(TxtX)
    /\ result.exc = "" /\ result.status = StatusPass

---------------------------------------------------------------------------
(* Claims about the loader (SpecLoader) *)

\* the two conventional places of an sls name below a search root, written
\* out: the init file and the named file
InitPlace(sls) ==
    CASE sls = SlsA  -> <<"/", "a", "/", "s", "a", "l", "t", "c", "h", "e", "c", "k", "-", "t", "e", "s", "t", "s", "/", "i", "n", "i", "t", ".", "t", "s", "t">>
      [] sls = SlsAB -> <<"/", "a", "/", "b", "/", "s", "a", "l", "t", "c", "h", "e", "c", "k", "-", "t", "e", "s", "t", "s", "/", "i", "n", "i", "t", ".", "t", "s", "t">>
      [] sls = SlsC  -> <<"/", "c", "/", "s", "a", "l", "t", "c", "h", "e", "c", "k", "-", "t", "e", "s", "t", "s", "/", "i", "n", "i", "t", ".", "t", "s", "t">>

NamedPlace(sls) ==
    CASE sls = SlsA  -> <<"/", "s", "a", "l", "t", "c", "h", "e", "c", "k", "-", "t", "e", "s", "t", "s", "/", "a", ".", "t", "s", "t">>
      [] sls = SlsAB -> <<"/", "a", "/", "s", "a", "l", "t", "c", "h", "e", "c", "k", "-", "t", "e", "s", "t", "s", "/", "b", ".", "t", "s", "t">>
      [] sls = SlsC  -> <<"/", "s", "a", "l", "t", "c", "h", "e", "c", "k", "-", "t", "e", "s", "t", "s", "/", "c", ".", "t", "s", "t">>

\* the existing files among the two places, for each search root in order
ExistingPlaces(sls) ==
    Flatten([n \in 1..Len(search_paths) |->
        (IF search_paths[n] \o InitPlace(sls) \in files
         THEN <<search_paths[n] \o InitPlace(sls)>> ELSE <<>>)
        \o (IF search_paths[n] \o NamedPlace(sls) \in files
            THEN <<search_paths[n] \o NamedPlace(sls)>> ELSE <<>>)])

\* C10: add_test_files_for_sls with check_all false appends, for each
\* search root in search-root order, exactly the existing files among
\* base/leaf/saltcheck-tests/init.tst and then base/saltcheck-tests/leaf.tst
\* and nothing else, and does not stop at the first root that yields files;
\* for "a.b" it asks about no path but R/a/b/saltcheck-tests/init.tst and
\* R/a/saltcheck-tests/b.tst.
C10_AppendsBothPlacesOfEveryRoot ==
    (l_adds > 0 /\ ~l_check_all) =>
        /\ test_files = l_before \o ExistingPlaces(l_sls)
        /\ l_probes \subseteq
              UNION {{search_paths[n] \o InitPlace(l_sls), search_paths[n] \o NamedPlace(l_sls)} :
                        n \in 1..Len(search_paths)}

C10_Witness ==
    /\ l_adds = 2 /\ ~l_check_all /\ l_sls = SlsAB
    /\ search_paths = <<Root2, Root1>>
    /\ l_before # <<>>
    /\ test_files = l_before \o <<FileR2NamedB, FileR1ABInit, FileR1NamedB>>

\* the directory below a search root that holds the sls name's own folder
\* (the base path), and the saltcheck-tests folder of the sls name
BaseOf(sls) == IF sls = SlsAB THEN <<"/", "a">> ELSE <<>>

TestsFolderOf(sls) ==
    CASE sls = SlsA  -> <<"/", "a", "/", "s", "a", "l", "t", "c", "h", "e", "c", "k", "-", "t", "e", "s", "t", "s">>
      [] sls = SlsAB -> <<"/", "a", "/", "b", "/", "s", "a", "l", "t", "c", "h", "e", "c", "k", "-", "t", "e", "s", "t", "s">>
      [] sls = SlsC  -> <<"/", "c", "/", "s", "a", "l", "t", "c", "h", "e", "c", "k", "-", "t", "e", "s", "t", "s">>

\* the search roots whose base path for the sls name is a directory
RootsWithBase(sls) ==
    {n \in 1..Len(search_paths) : IsDirAt(search_paths[n] \o BaseOf(sls))}

FirstRootWithBase(sls) ==
    CHOOSE n \in RootsWithBase(sls) : \A m \in RootsWithBase(sls) : n <= m

\* the directory and the file name of a path
FolderOfPath(f) == RPartition(f, Sep)[1]
NameOfPath(f) == RPartition(f, Sep)[3]

\* C11: add_test_files_for_sls with check_all true stops at the first search
\* root whose base path is a directory: after the call test_files holds
\* exactly the files ending in .tst found at any depth under
\* base/leaf/saltcheck-tests of that root, each once and sorted by file name
\* within each directory; later roots contribute nothing, even if the first
\* yields no file, and the paths test_files held before the call are gone.
C11_CheckAllGathersFirstRoot ==
    (l_adds > 0 /\ l_check_all /\ RootsWithBase(l_sls) # {}) =>
        LET folder == search_paths[FirstRootWithBase(l_sls)] \o TestsFolderOf(l_sls)
        IN  /\ {test_files[n] : n \in 1..Len(test_files)}
                  = {f \in files : HasPrefix(f, Append(folder, Sep)) /\ EndsWith(f, TxtDotTst)}
            /\ \A n, m \in 1..Len(test_files) :
                  n < m => /\ test_files[n] # test_files[m]
                           /\ FolderOfPath(test_files[n]) = FolderOfPath(test_files[m])
                                  => TextLess(NameOfPath(test_files[n]), NameOfPath(test_files[m]))

\* a call with check_all that finds test_files holding paths and a second
\* root holding tests, and leaves the sorted tests of the first root alone
C11_Witness ==
    /\ l_adds = 2 /\ l_check_all /\ l_sls = SlsA
    /\ search_paths = <<Root1, Root2>>
    /\ l_before # <<>>
    /\ FileR2AInit \in files /\ FileR1Notes \in files
    /\ test_files = <<FileR1NamedB, FileR1AInit, FileR1SubX>>

---------------------------------------------------------------------------
(* Claims about a batch run (SpecBatch) *)

\* a result of run_test that is a record with a status text and a duration
IsRecord(res) == res.exc = "" /\ res.status # <<>> /\ res.duration \in Nat

\* the test names the loader holds for the state whose tests are run
Discovered == Keys(stl_test_dict)

\* C4: in a batch run every test name discovered for a state yields exactly
\* one record with a textual status and a duration in the state's result
\* mapping, tests that fail validation or name an unknown assertion
\* included, and no test aborts the run part-way: the only raise that may
\* leave the run is the one of the invoked operation itself.
C4_EveryTestYieldsARecord ==
    /\ b_pc = "raised" => b_exc = "SaltException"
    /\ (b_pc = "add" /\ b_state_name # <<>>) =>
           /\ Keys(Lookup(b_results, b_state_name)) = Discovered
           /\ \A n \in 1..Len(Lookup(b_results, b_state_name)) :
                  IsRecord(Lookup(b_results, b_state_name)[n].val)

\* every (name, definition) pair of the files load_test_suite read, file
\* after file in the order of test_files and pair after pair within a file
PairsRead ==
    Flatten([n \in 1..Len(b_files) |->
        [m \in 1..Len(rendered[b_files[n]]) |->
            [key |-> JsonKey(rendered[b_files[n]][m].key), val |-> rendered[b_files[n]][m].val]]])

\* where a name is first and last defined among the pairs read
FirstSeen(name) ==
    CHOOSE n \in 1..Len(PairsRead) :
        PairsRead[n].key = name /\ \A m \in 1..(n - 1) : PairsRead[m].key # name
LastSeen(name) ==
    CHOOSE n \in 1..Len(PairsRead) :
        PairsRead[n].key = name /\ \A m \in (n + 1)..Len(PairsRead) : PairsRead[m].key # name

\* load_test_suite has just run for a state and none of its tests has yet
JustLoaded == b_pc = "tests" /\ b_todo = Keys(stl_test_dict)

\* C12: load_test_suite merges the rendered files in discovery order into
\* one ordered mapping: every name defined in the files has exactly one
\* entry, valued from the last file that defines it and placed where the
\* name was first seen; a name defined in one file keeps that file's value
\* and order.
C12_MergeLastValueFirstPlace ==
    JustLoaded =>
        /\ {stl_test_dict[n].key : n \in 1..Len(stl_test_dict)}
              = {PairsRead[n].key : n \in 1..Len(PairsRead)}
        /\ \A n \in 1..Len(stl_test_dict) :
              stl_test_dict[n].val = PairsRead[LastSeen(stl_test_dict[n].key)].val
        /\ \A n, m \in 1..Len(stl_test_dict) :
              n < m => FirstSeen(stl_test_dict[n].key) < FirstSeen(stl_test_dict[m].key)

\* two files read that both define t1: its entry keeps the first place and
\* takes the later file's definition
C12_Witness ==
    /\ JustLoaded
    /\ b_files = <<FileR1AInit, FileR2AInit>>
    /\ stl_test_dict = << KV(TxtT1, TestNoOperation), KV(TxtT2, TestSkip), KV(Txt5, TestBogus) >>

---------------------------------------------------------------------------
(* Claims about run_test calls in a row (SpecKwargs) *)

\* whether the kwargs an invocation was given carry a key exactly when the
\* definition gives non-empty data for it, and then with that data
CarriesExactly(c, key, field) ==
    /\ DictHas(c.call.kwargs, key) <=> Truthy(Get(c.definition, field, PNone))
    /\ DictHas(c.call.kwargs, key) => DictGet(c.call.kwargs, key) = c.definition[field]

\* C13: the kwargs passed to the invocation hold the key pillar exactly
\* when the definition has non-empty pillar-data, valued with it, and the
\* key grain exactly when it has non-empty grain-data, valued with it; a
\* pillar or grain key the definition's kwargs already carry is removed when
\* the data is absent; running the same definition again passes the same
\* kwargs.
C13_KwargsCarryExactlyTheData ==
    \A n \in 1..Len(cmd_calls) :
        /\ CarriesExactly(cmd_calls[n], TxtPillar, "pillar-data")
        /\ CarriesExactly(cmd_calls[n], TxtGrain, "grain-data")
        /\ (n > 1 /\ cmd_calls[n].again) => cmd_calls[n].call.kwargs = cmd_calls[n - 1].call.kwargs

\* a definition whose kwargs carry pillar and grain and that has neither
\* data, run twice: both invocations get the kwargs without the two keys
C13_Witness ==
    /\ Len(cmd_calls) = 2
    /\ cmd_calls[2].again
    /\ DictHas(Get(cmd_calls[1].definition, "kwargs", PNone), TxtPillar)
    /\ "pillar-data" \notin DOMAIN cmd_calls[1].definition
    /\ "grain-data" \notin DOMAIN cmd_calls[1].definition
    /\ cmd_calls[1].call.kwargs = DataK
    /\ cmd_calls[2].call.kwargs = DataK

---------------------------------------------------------------------------
(* Claims about the memoized existence checks (SpecMemo) *)

\* whether the cache holds an answer for what a lookup asked
CachedAs(l, answer) ==
    IF l.listing = "sys.list_modules"
    THEN l.args[1] \in DOMAIN mod_cache /\ mod_cache[l.args[1]] = answer
    ELSE /\ (l.args[1] \o <<",">> \o l.args[2]) \in DOMAIN fun_cache
         /\ fun_cache[l.args[1] \o <<",">> \o l.args[2]] = answer

\* C14: across any sequence of validations the module listing is asked at
\* most once for a module name and the function listing at most once for a
\* (module, function) pair; every later check for the key gets the first
\* answer, so that a definition gets the same verdict every time it is
\* validated, even if the modules and functions change in between.
C14_AskedOnceAndVerdictStable ==
    /\ \A n, m \in 1..Len(lookups) :
          (lookups[n].listing = lookups[m].listing /\ lookups[n].args = lookups[m].args)
              => n = m
    /\ \A n \in 1..Len(lookups) : CachedAs(lookups[n], lookups[n].answer)
    /\ \A n, m \in 1..Len(verdicts) :
          verdicts[n].definition = verdicts[m].definition
              => verdicts[n].valid = verdicts[m].valid

\* test.echo validated twice and accepted twice with one lookup of each
\* kind, the second time on a minion that lists no module and no function
C14_Witness ==
    /\ Len(verdicts) = 2
    /\ verdicts[1].definition = verdicts[2].definition
    /\ verdicts[1].definition["module_and_function"] = PStr(TxtTestEcho)
    /\ verdicts[2].valid
    /\ modules = {} /\ functions = {}
    /\ Len(lookups) = 2

---------------------------------------------------------------------------
(* Claims about what the validator accepts and what run_test invokes (Spec) *)

\* the operation named is a function the minion lists, on a module it lists
OperationExists ==
    /\ Truthy(Operation) /\ Operation.k = "str" /\ Len(Split(Operation.s, ".")) = 2
    /\ Split(Operation.s, ".")[1] \in modules
    /\ ~lookup_fails /\ Operation.s \in functions

\* C15: every definition that is not skipped and that the validator judges
\* valid names an operation whose module exists and whose function exists on
\* that module and, unless the operation is saltcheck.state_apply, an
\* assertion of a recognized kind, at each required total (2, 4 and 6) and
\* whatever expected-return it carries.
C15_ValidNamesExistingOperation ==
    (Ran /\ ~Skip /\ r_valid = "valid") =>
        /\ OperationExists
        /\ ~IsAlias => Recognized

\* the three ends of a run_test call
Skipped == result.exc = "" /\ result.status = StatusSkip
Invalid == result.exc = "" /\ result.status = StatusInvalid
Executed == Len(cmd_calls) > 0

\* C17: run_test invokes the named operation only for a definition that
\* passed validation and is not skipped, and then exactly once in the call;
\* a call that returns "Skip" or "Fail - invalid test" has invoked nothing;
\* a call that returns has ended as exactly one of skipped, invalid and
\* executed.
C17_InvokesOnceIfValidAndNotSkipped ==
    Ran =>
        /\ Len(cmd_calls) <= 1
        /\ Executed <=> (r_valid = "valid" /\ ~Skip)
        /\ Executed => cmd_calls[1].call.fun = Operation
        /\ (Skipped \/ Invalid) => ~Executed
        /\ result.exc = "" => \/ Skipped /\ ~Invalid /\ ~Executed
                              \/ Invalid /\ ~Skipped /\ ~Executed
                              \/ Executed /\ ~Skipped /\ ~Invalid

\* a skipped definition that would run if it were not skipped: the call
\* ends skipped and has invoked nothing
C17_Witness ==
    /\ Ran /\ Skip /\ Skipped /\ ~Executed
    /\ Operation = PStr(TxtTestEcho)
    /\ Assertion = PStr(TxtAssertEqual)
    /\ Get(test_dict, "expected-return", PNone) = PStr(TxtX)

---------------------------------------------------------------------------
(* Claims about the states of a batch run, one after the other (SpecBatch) *)

\* whether a path is one of the places of an sls name: its init file, its
\* named file, or a file below its saltcheck-tests folder, under some root
OwnPlace(f, sls) ==
    \E n \in 1..Len(search_paths) :
        \/ f = search_paths[n] \o InitPlace(sls)
        \/ f = search_paths[n] \o NamedPlace(sls)
        \/ HasPrefix(f, Append(search_paths[n] \o TestsFolderOf(sls), Sep))

\* whether a test of the mapping is a (name, definition) pair of the files
\* read in this pass
ReadInThisPass(e) ==
    \E m \in 1..Len(PairsRead) : PairsRead[m].key = e.key /\ PairsRead[m].val = e.val

\* C16: in the loop over several states the tests executed for a state are
\* only tests rendered from the files discovered for that state in that
\* pass: load_test_suite rebuilds test_dict from empty and leaves
\* test_files empty, no definition and no path of an earlier state gets into
\* a later state's results, and a state without test files gets an empty
\* result mapping.
C16_EachStateRunsItsOwnTests ==
    b_state_name # <<>> =>
        /\ test_files = <<>>
        /\ \A n \in 1..Len(b_files) : OwnPlace(b_files[n], b_state_name)
        /\ \A n \in 1..Len(stl_test_dict) : ReadInThisPass(stl_test_dict[n])
        /\ \A n \in 1..Len(b_results_dict) :
              \E m \in 1..Len(PairsRead) : PairsRead[m].key = b_results_dict[n].key
        /\ b_pc \in {"add", "done"} =>
              /\ Lookup(b_results, b_state_name) = b_results_dict
              /\ b_files = <<>> => Lookup(b_results, b_state_name) = <<>>

\* a state with tests and then a state without test files: the first has
\* results, the second an empty result mapping
C16_Witness ==
    /\ b_pc = "add"
    /\ b_state_name = SlsC
    /\ b_files = <<>>
    /\ Len(b_results) = 2
    /\ b_results[1].key = SlsA /\ Len(b_results[1].val) = 2
    /\ b_results[2] = KV(SlsC, <<>>)

=============================================================================
